---- MODULE Spec2Model ----
(***************************************************************************)
(* Model of the test-data fetcher of notebooks/tests/conftest.py:          *)
(* download_and_extract_data() and the module-level guard that calls it.   *)
(*                                                                         *)
(* Strings are sequences of symbols over a small alphabet in which "/" is  *)
(* the path separator, so that str.split and str.startswith are computed   *)
(* symbol by symbol.  A directory tree is a set of nodes                   *)
(* [path, dir, src], path being the sequence of components below the       *)
(* tree's root and src the 1-based index of the archive member the node    *)
(* was written from (0: not written from an archive member).               *)
(***************************************************************************)
EXTENDS Integers, Sequences, FiniteSets, TLC

\* ----------------------------------------------------------------- bounds
\* Number of times the conftest module is imported (one fetcher invocation
\* each), and the largest number of members of a downloaded archive.
MaxRuns == 2
MaxMembers == 3

\* ---------------------------------------------------------------- strings
Slash == "/"

\* Member names the remote archive is built from (zip member names use "/"
\* and a directory member ends with "/").
N_top      == <<"T", "/">>
N_data     == <<"T", "/", "data", "/">>
N_a        == <<"T", "/", "data", "/", "a">>
N_sub_b    == <<"T", "/", "data", "/", "s", "/", "b">>
N_a_e      == <<"T", "/", "data", "/", "a", "/", "e">>
N_other_b  == <<"T", "/", "other", "/", "b">>
N_database == <<"T", "/", "data", "base", "/", "a">>
N_u_a      == <<"U", "/", "data", "/", "a">>

MemberNames == {N_top, N_data, N_a, N_sub_b, N_a_e, N_other_b, N_database, N_u_a}

\* str.startswith
StartsWith(s, p) == Len(s) >= Len(p) /\ SubSeq(s, 1, Len(p)) = p

\* str.endswith("/")  (ZipInfo.is_dir)
IsDirName(s) == Len(s) > 0 /\ s[Len(s)] = Slash

\* str.split("/"): the components between separators, empty ones included
RECURSIVE Split(_)
Split(s) ==
    IF \A k \in 1..Len(s) : s[k] # Slash
    THEN <<s>>
    ELSE LET k == CHOOSE j \in 1..Len(s) :
                    s[j] = Slash /\ \A h \in 1..(j - 1) : s[h] # Slash
         IN <<SubSeq(s, 1, k - 1)>> \o Split(SubSeq(s, k + 1, Len(s)))

NonEmptyComp(c) == c # <<>>

\* ZipFile._extract_member: the member name cut into path components with
\* the empty ones dropped
ArcPath(name) == SelectSeq(Split(name), NonEmptyComp)

\* ------------------------------------------------------------ directory trees
IsPrefix(p, q) == Len(p) <= Len(q) /\ SubSeq(q, 1, Len(p)) = p

PathExists(nodes, p) == p = <<>> \/ \E n \in nodes : n.path = p
IsDirAt(nodes, p)    == p = <<>> \/ \E n \in nodes : n.path = p /\ n.dir
IsFileAt(nodes, p)   == \E n \in nodes : n.path = p /\ ~n.dir

DirNode(p, i)  == [path |-> p, dir |-> TRUE, src |-> i]
FileNode(p, i) == [path |-> p, dir |-> FALSE, src |-> i]

\* os.makedirs(p): every missing ancestor of p and p itself become
\* directories; fails when a component on the way is a file
MakedirsOk(nodes, p) == \A k \in 1..Len(p) : ~IsFileAt(nodes, SubSeq(p, 1, k))
Makedirs(nodes, p, i) ==
    nodes \cup {DirNode(SubSeq(p, 1, k), i) :
                  k \in {j \in 1..Len(p) : ~PathExists(nodes, SubSeq(p, 1, j))}}

\* The tree below directory root, with paths relative to root
Subtree(nodes, root) ==
    {[path |-> SubSeq(n.path, Len(root) + 1, Len(n.path)), dir |-> n.dir, src |-> n.src] :
       n \in {m \in nodes : IsPrefix(root, m.path) /\ Len(m.path) > Len(root)}}

\* A set of nodes that holds the parent directory of each of its nodes
AncestorClosed(nodes) ==
    \A n \in nodes : Len(n.path) > 1 =>
        \E d \in nodes : d.dir /\ d.path = SubSeq(n.path, 1, Len(n.path) - 1)

\* ------------------------------------------------------------- zip archive
\* ZipFile.extract(member, path): writes the member below path.  The parent
\* directories are created when the parent path does not exist; a directory
\* member is created with mkdir unless it is a directory already; a file
\* member is opened for writing, replacing a file of that path.
\* The result is [ok, nodes]: ok is FALSE when the call raises.
Extract(nodes, name, i) ==
    LET p     == ArcPath(name)
        upper == SubSeq(p, 1, Len(p) - 1)
        made  == IF upper # <<>> /\ ~PathExists(nodes, upper) /\ MakedirsOk(nodes, upper)
                 THEN Makedirs(nodes, upper, i)
                 ELSE nodes
    IN  IF ~IsDirAt(made, upper)
        THEN [ok |-> FALSE, nodes |-> made]
        ELSE IF IsDirName(name)
        THEN IF IsDirAt(made, p)
             THEN [ok |-> TRUE, nodes |-> made]
             ELSE IF PathExists(made, p)
             THEN [ok |-> FALSE, nodes |-> made]
             ELSE [ok |-> TRUE, nodes |-> made \cup {DirNode(p, i)}]
        ELSE IF IsDirAt(made, p)
             THEN [ok |-> FALSE, nodes |-> made]
             ELSE [ok |-> TRUE,
                   nodes |-> {n \in made : n.path # p} \cup {FileNode(p, i)}]

\* The archives the remote may serve: up to MaxMembers members with distinct
\* names, in any order (ZipFile.namelist() keeps the archive's order).
Archives ==
    UNION {{s \in [1..n -> MemberNames] : \A j, k \in 1..n : s[j] = s[k] => j = k} :
             n \in 0..MaxMembers}

\* What ends up in data.zip: a zip archive with its member names, or bytes
\* that are no zip archive.
NotAZip == [zip |-> FALSE, names |-> <<>>]
ZipBodies == {[zip |-> TRUE, names |-> a] : a \in Archives} \cup {NotAZip}

\* ------------------------------------------------------------------- HTTP
\* Final status codes of a requests.get call; 0 stands for a transport
\* failure (requests.get raises, there is no response).
Statuses == {0, 200, 300, 404, 503}

\* Fault variant: the status is never checked
RaiseForStatus_never(st) == FALSE

\* Response.raise_for_status(): HTTPError for 4xx and 5xx
RaiseForStatus(st) == 400 <= st /\ st < 600

\* Body of the metadata response: a JSON object with "zipball_url", a JSON
\* object without it (release["zipball_url"] raises KeyError), or no JSON
\* (resp.json() raises).
MetaBodies == {"release", "nokey", "notjson"}

\* ------------------------------------------------------------------ state
VARIABLES
    pc,         \* position of the importing process: "idle" between invocations
    run,        \* number of invocations started so far
    target,     \* DATA_DIR: [exists, nodes]
    tmp,        \* the temporary workspaces on disk: workspace id -> nodes
    net,        \* requests sent: [meta, zip]
    resp,       \* the metadata response: [status, body]
    zip_url,    \* release["zipball_url"]
    archive,    \* what the download wrote to data.zip
    top_level,  \* zip_ref.namelist()[0].split("/")[0]
    member,     \* index of the loop over zip_ref.namelist()
    failed,     \* the step that raised in this invocation, "none" if none
    result,     \* how the last invocation ended
    stderr,     \* number of diagnostics written to sys.stderr
    start,      \* history: target when the invocation began
    net0,       \* history: net when the invocation began
    stderr0,    \* history: stderr when the invocation began
    trace,      \* history: the steps this invocation has performed
    firstOk,    \* history: [seen, net] at the first invocation that ended well
    firstPop    \* history: the same, for one that left DATA_DIR non-empty

vars == <<pc, run, target, tmp, net, resp, zip_url, archive, top_level, member,
          failed, result, stderr, start, net0, stderr0, trace, firstOk, firstPop>>

Missing == [exists |-> FALSE, nodes |-> {}]
EmptyDir == [exists |-> TRUE, nodes |-> {}]
\* A data directory populated before the first invocation
OldFile == FileNode(<<(<<"old">>)>>, 0)
Populated == [exists |-> TRUE, nodes |-> {OldFile}]

NoResp == [status |-> 0, body |-> "none"]
DataComp == <<"data">>
ZipPath == <<(<<"data", ".zip">>)>>

\* os.listdir(DATA_DIR)
Listdir(t) == {n \in t.nodes : Len(n.path) = 1}

\* Fault variants of the guard: no guard at all, the listdir test left out,
\* and its "not" left out
NeedsFetch_always(t) == TRUE
NeedsFetch_missingOnly(t) == ~t.exists
NeedsFetch_notDropped(t) == ~t.exists \/ Listdir(t) # {}

\* line 50: not os.path.exists(DATA_DIR) or not os.listdir(DATA_DIR)
NeedsFetch(t) == ~t.exists \/ Listdir(t) = {}

\* Fault variant: the prefix without "data/"
Selected_anyUnderTop(name, top) == StartsWith(name, top \o <<Slash>>)

\* line 40: member.startswith(f"{top_level}/data/")
Selected(name, top) == StartsWith(name, top \o <<Slash>> \o DataComp \o <<Slash>>)

\* Fault variant: the top-level directory is copied
SrcDataDir_top(top) == <<top>>

\* line 42: os.path.join(tmpdir, top_level, "data"), relative to tmpdir
SrcDataDir(top) == <<top, DataComp>>

\* Fault variant: a missing source is copied as an empty tree
SourceListable_always(nodes, src) == TRUE

\* shutil.copytree lists the source directory first: it must be a directory
SourceListable(nodes, src) == src # <<>> /\ IsDirAt(nodes, src)

\* Fault variant: DATA_DIR is removed before the archive is opened
StepAfter_rmtreeEarly(step) ==
    CASE step = "meta"     -> "tmpdir"
      [] step = "tmpdir"   -> "download"
      [] step = "download" -> "rmtree"
      [] step = "rmtree"   -> "open"
      [] step = "open"     -> "extract"
      [] step = "extract"  -> "copytree"
      [] step = "copytree" -> "cleanup"

\* The order of the statements of download_and_extract_data
StepAfter(step) ==
    CASE step = "meta"     -> "tmpdir"
      [] step = "tmpdir"   -> "download"
      [] step = "download" -> "open"
      [] step = "open"     -> "extract"
      [] step = "extract"  -> "rmtree"
      [] step = "rmtree"   -> "copytree"
      [] step = "copytree" -> "cleanup"

\* Fault variant: the workspace is removed on return only
WithExit_keepOnError(t, id, raised) ==
    IF raised THEN t ELSE [k \in DOMAIN t \ {id} |-> t[k]]

\* Leaving the "with tempfile.TemporaryDirectory()" block removes the
\* workspace, on return and on an exception alike
WithExit(t, id, raised) == [k \in DOMAIN t \ {id} |-> t[k]]

Init ==
    /\ pc = "idle"
    /\ run = 0
    /\ target \in {Missing, EmptyDir, Populated}
    /\ tmp = <<>>
    /\ net = [meta |-> 0, zip |-> 0]
    /\ resp = NoResp
    /\ zip_url = "none"
    /\ archive = NotAZip
    /\ top_level = <<>>
    /\ member = 0
    /\ failed = "none"
    /\ result = "none"
    /\ stderr = 0
    /\ start = target
    /\ net0 = net
    /\ stderr0 = 0
    /\ trace = <<>>
    /\ firstOk = [seen |-> FALSE, net |-> net]
    /\ firstPop = [seen |-> FALSE, net |-> net]

\* The history at the start of an invocation; a new process has no response
\* and no exception yet
Begin ==
    /\ run' = run + 1
    /\ resp' = NoResp
    /\ zip_url' = "none"
    /\ member' = 0
    /\ failed' = "none"
    /\ start' = target
    /\ net0' = net
    /\ stderr0' = stderr
    /\ trace' = <<>>

\* The history of an invocation that ends without raising, DATA_DIR being t
EndsWell(t) ==
    /\ firstOk' = IF firstOk.seen THEN firstOk ELSE [seen |-> TRUE, net |-> net]
    /\ firstPop' = IF firstPop.seen \/ Listdir(t) = {}
                   THEN firstPop
                   ELSE [seen |-> TRUE, net |-> net]

\* ---------------------------------------------------------------- actions
\* line 50, condition false: the module is imported and nothing is fetched
GuardSkip ==
    /\ pc = "idle"
    /\ run < MaxRuns
    /\ ~NeedsFetch(target)
    /\ Begin
    /\ result' = "skipped"
    /\ EndsWell(target)
    /\ UNCHANGED <<pc, target, tmp, net, stderr, archive, top_level>>

\* lines 50-52, condition true: download_and_extract_data() is called
GuardFetch ==
    /\ pc = "idle"
    /\ run < MaxRuns
    /\ NeedsFetch(target)
    /\ Begin
    /\ result' = "running"
    /\ pc' = "meta"
    /\ archive' = NotAZip
    /\ top_level' = <<>>
    /\ UNCHANGED <<target, tmp, net, stderr, firstOk, firstPop>>

\* lines 21-25: the release metadata request
GetRelease ==
    /\ pc = "meta"
    /\ \E st \in Statuses, body \in MetaBodies :
         /\ resp' = [status |-> st, body |-> IF st = 0 THEN "none" ELSE body]
         /\ net' = [net EXCEPT !.meta = @ + 1]
         /\ trace' = Append(trace, "meta")
         /\ IF st = 0 \/ RaiseForStatus(st) \/ body # "release"
            THEN /\ failed' = "meta"
                 /\ pc' = "except"
                 /\ UNCHANGED zip_url
            ELSE /\ zip_url' = "zipball"
                 /\ pc' = StepAfter("meta")
                 /\ UNCHANGED failed
    /\ UNCHANGED <<run, target, tmp, archive, top_level, member, result, stderr,
                   start, net0, stderr0, firstOk, firstPop>>

\* lines 27-28: tempfile.TemporaryDirectory() creates the workspace
MakeTmp ==
    /\ pc = "tmpdir"
    /\ tmp' = (run :> {}) @@ tmp
    /\ trace' = Append(trace, "tmpdir")
    /\ pc' = StepAfter("tmpdir")
    /\ UNCHANGED <<run, target, net, resp, zip_url, archive, top_level, member,
                   failed, result, stderr, start, net0, stderr0, firstOk, firstPop>>

\* lines 29-33: the archive is requested and streamed to data.zip; the
\* stream may break after the file was opened (cut)
Download ==
    /\ pc = "download"
    /\ \E st \in Statuses, body \in ZipBodies, cut \in BOOLEAN :
         /\ net' = [net EXCEPT !.zip = @ + 1]
         /\ trace' = Append(trace, "download")
         /\ IF st = 0 \/ RaiseForStatus(st)
            THEN /\ failed' = "download"
                 /\ pc' = "cleanup"
                 /\ UNCHANGED <<tmp, archive>>
            ELSE /\ tmp' = [tmp EXCEPT ![run] = @ \cup {FileNode(ZipPath, 0)}]
                 /\ IF cut
                    THEN /\ failed' = "download"
                         /\ pc' = "cleanup"
                         /\ UNCHANGED archive
                    ELSE /\ archive' = body
                         /\ pc' = StepAfter("download")
                         /\ UNCHANGED failed
    /\ UNCHANGED <<run, target, resp, zip_url, top_level, member, result, stderr,
                   start, net0, stderr0, firstOk, firstPop>>

\* lines 35-37: zipfile.ZipFile(zip_path) raises BadZipFile for a file that
\* is no archive; namelist()[0] raises IndexError for an archive without
\* members
OpenArchive ==
    /\ pc = "open"
    /\ trace' = Append(trace, "open")
    /\ IF ~archive.zip
       THEN /\ failed' = "open"
            /\ pc' = "cleanup"
            /\ UNCHANGED <<top_level, member>>
       ELSE IF archive.names = <<>>
       THEN /\ failed' = "toplevel"
            /\ pc' = "cleanup"
            /\ UNCHANGED <<top_level, member>>
       ELSE /\ top_level' = Split(archive.names[1])[1]
            /\ member' = 1
            /\ pc' = StepAfter("open")
            /\ UNCHANGED failed
    /\ UNCHANGED <<run, target, tmp, net, resp, zip_url, archive, result, stderr,
                   start, net0, stderr0, firstOk, firstPop>>

\* lines 39-40: a member that does not start with the prefix is passed over
SkipMember ==
    /\ pc = "extract"
    /\ member <= Len(archive.names)
    /\ ~Selected(archive.names[member], top_level)
    /\ member' = member + 1
    /\ UNCHANGED <<pc, run, target, tmp, net, resp, zip_url, archive, top_level,
                   failed, result, stderr, start, net0, stderr0, trace, firstOk, firstPop>>

\* lines 39-41: a member that starts with the prefix is extracted into the
\* workspace; the call raises on a path conflict or on a damaged member (bad)
ExtractMember ==
    /\ pc = "extract"
    /\ member <= Len(archive.names)
    /\ Selected(archive.names[member], top_level)
    /\ trace' = Append(trace, "extract")
    /\ \E bad \in BOOLEAN :
         LET r == Extract(tmp[run], archive.names[member], member)
         IN  IF bad \/ ~r.ok
             THEN /\ tmp' = [tmp EXCEPT ![run] = IF bad THEN @ ELSE r.nodes]
                  /\ failed' = "extract"
                  /\ pc' = "cleanup"
                  /\ UNCHANGED member
             ELSE /\ tmp' = [tmp EXCEPT ![run] = r.nodes]
                  /\ member' = member + 1
                  /\ UNCHANGED <<pc, failed>>
    /\ UNCHANGED <<run, target, net, resp, zip_url, archive, top_level, result,
                   stderr, start, net0, stderr0, firstOk, firstPop>>

\* the loop of line 39 is over
ExtractDone ==
    /\ pc = "extract"
    /\ member > Len(archive.names)
    /\ pc' = StepAfter("extract")
    /\ UNCHANGED <<run, target, tmp, net, resp, zip_url, archive, top_level, member,
                   failed, result, stderr, start, net0, stderr0, trace, firstOk, firstPop>>

\* lines 43-44: an existing DATA_DIR is removed; shutil.rmtree may raise
\* (denied), and DATA_DIR is then still there
RemoveTarget ==
    /\ pc = "rmtree"
    /\ IF target.exists
       THEN /\ trace' = Append(trace, "rmtree")
            /\ \E denied \in BOOLEAN :
                 IF denied
                 THEN /\ failed' = "rmtree"
                      /\ pc' = "cleanup"
                      /\ UNCHANGED target
                 ELSE /\ target' = Missing
                      /\ pc' = StepAfter("rmtree")
                      /\ UNCHANGED failed
       ELSE /\ pc' = StepAfter("rmtree")
            /\ UNCHANGED <<target, failed, trace>>
    /\ UNCHANGED <<run, tmp, net, resp, zip_url, archive, top_level, member, result,
                   stderr, start, net0, stderr0, firstOk, firstPop>>

\* line 45: shutil.copytree(src_data_dir, DATA_DIR).  It raises before it
\* writes when the source is no directory or DATA_DIR exists.  Otherwise it
\* creates DATA_DIR and copies entry by entry, goes on after an entry that
\* fails and raises at the end: what is left is DATA_DIR with any part of the
\* tree (io = "partial"), or no DATA_DIR when it could not be created
\* (io = "nodir").
CopyTree ==
    /\ pc = "copytree"
    /\ trace' = Append(trace, "copytree")
    /\ pc' = StepAfter("copytree")
    /\ LET src  == SrcDataDir(top_level)
           full == Subtree(tmp[run], src)
       IN  IF ~SourceListable(tmp[run], src) \/ target.exists
           THEN /\ failed' = "copytree"
                /\ UNCHANGED target
           ELSE \E io \in {"ok", "nodir", "partial"} :
                  CASE io = "ok" ->
                         /\ target' = [exists |-> TRUE, nodes |-> full]
                         /\ UNCHANGED failed
                    [] io = "nodir" ->
                         /\ failed' = "copytree"
                         /\ UNCHANGED target
                    [] io = "partial" ->
                         /\ failed' = "copytree"
                         /\ \E part \in SUBSET full :
                              /\ AncestorClosed(part)
                              /\ target' = [exists |-> TRUE, nodes |-> part]
    /\ UNCHANGED <<run, tmp, net, resp, zip_url, archive, top_level, member, result,
                   stderr, start, net0, stderr0, firstOk, firstPop>>

\* the end of the "with" block of line 27, reached by return or by exception
Cleanup ==
    /\ pc = "cleanup"
    /\ tmp' = WithExit(tmp, run, failed # "none")
    /\ trace' = Append(trace, "cleanup")
    /\ pc' = IF failed # "none" THEN "except" ELSE "return"
    /\ UNCHANGED <<run, target, net, resp, zip_url, archive, top_level, member,
                   failed, result, stderr, start, net0, stderr0, firstOk, firstPop>>

\* line 46 and the end of the module: the import succeeds
Return ==
    /\ pc = "return"
    /\ result' = "installed"
    /\ EndsWell(target)
    /\ pc' = "idle"
    /\ UNCHANGED <<run, target, tmp, net, resp, zip_url, archive, top_level, member,
                   failed, stderr, start, net0, stderr0, trace>>

\* lines 53-55: the diagnostic goes to sys.stderr and sys.exit(1) ends the
\* process
Except ==
    /\ pc = "except"
    /\ stderr' = stderr + 1
    /\ result' = "fatal"
    /\ pc' = "idle"
    /\ UNCHANGED <<run, target, tmp, net, resp, zip_url, archive, top_level, member,
                   failed, start, net0, stderr0, trace, firstOk, firstPop>>

Next ==
    \/ GuardSkip
    \/ GuardFetch
    \/ GetRelease
    \/ MakeTmp
    \/ Download
    \/ OpenArchive
    \/ SkipMember
    \/ ExtractMember
    \/ ExtractDone
    \/ RemoveTarget
    \/ CopyTree
    \/ Cleanup
    \/ Return
    \/ Except

Spec == Init /\ [][Next]_vars

\* The exit status of the process of the last invocation
ExitStatus == IF result = "fatal" THEN 1 ELSE 0

\* ------------------------------------------------------------- properties
\* Stated from the archive and the directory trees, apart from the
\* operators the actions use.

Did(step) == \E k \in 1..Len(trace) : trace[k] = step

\* An invocation has ended and no other has begun
Ended == pc = "idle" /\ run > 0
Installed == Ended /\ result = "installed"

HasEntry(t) == t.exists /\ \E n \in t.nodes : Len(n.path) = 1

\* The path prefix of a member name: what precedes its first "/"
FirstSlash(s) ==
    IF \E k \in 1..Len(s) : s[k] = Slash
    THEN CHOOSE k \in 1..Len(s) : s[k] = Slash /\ \A h \in 1..(k - 1) : s[h] # Slash
    ELSE Len(s) + 1
TopOf(names) == SubSeq(names[1], 1, FirstSlash(names[1]) - 1)

\* <top-level>/data/
DataPrefix(names) == TopOf(names) \o <<"/", "data", "/">>
UnderData(names, i) ==
    /\ i \in 1..Len(names)
    /\ LET pre == DataPrefix(names)
       IN  /\ Len(names[i]) >= Len(pre)
           /\ \A k \in 1..Len(pre) : names[i][k] = pre[k]

\* The path of member i below <top-level>/data
RelPath(names, i) ==
    ArcPath(SubSeq(names[i], Len(DataPrefix(names)) + 1, Len(names[i])))

\* The <top-level>/data subtree of an archive: its files with the index of
\* the member that holds their bytes, and its directories
ExpectedTree(names) ==
    IF names = <<>> THEN {}
    ELSE LET sel == {i \in 1..Len(names) : UnderData(names, i)}
         IN  {[path |-> RelPath(names, i), dir |-> FALSE, body |-> i] :
                i \in {j \in sel : ~IsDirName(names[j])}}
             \cup
             UNION {{[path |-> SubSeq(RelPath(names, i), 1, k), dir |-> TRUE, body |-> 0] :
                       k \in {j \in 1..Len(RelPath(names, i)) :
                                j < Len(RelPath(names, i)) \/ IsDirName(names[i])}} :
                    i \in sel}

\* A directory tree as relative paths and file contents
View(nodes) ==
    {[path |-> n.path, dir |-> n.dir, body |-> IF n.dir THEN 0 ELSE n.src] : n \in nodes}

\* C1: an invocation that begins with DATA_DIR existing and holding an entry
\* sends no request, never enters download_and_extract_data and leaves
\* DATA_DIR as it was.
C1_IdempotenceGuard ==
    (run > 0 /\ HasEntry(start)) =>
        /\ pc = "idle"
        /\ result = "skipped"
        /\ trace = <<>>
        /\ net = net0
        /\ target = start

\* C1 witness: an invocation was skipped over a directory a fetch had filled
C1_Witness ==
    /\ Ended
    /\ result = "skipped"
    /\ \E n \in start.nodes : n.src > 0

\* C2: a fetch that begins without DATA_DIR and returns leaves DATA_DIR
\* holding exactly the <top-level>/data subtree of the fetched archive.
C2_FreshFetch ==
    (Installed /\ ~start.exists) =>
        /\ target.exists
        /\ View(target.nodes) = ExpectedTree(archive.names)

\* C2 witness: a fresh fetch installed a file and a nested file
C2_Witness ==
    /\ Installed
    /\ ~start.exists
    /\ \E n \in target.nodes : ~n.dir /\ Len(n.path) = 1
    /\ \E n \in target.nodes : ~n.dir /\ Len(n.path) = 2

\* C3 as claimed: once an invocation has ended without error, no later
\* invocation sends a request.
C3_NoRequestAfterSuccess == firstOk.seen => net = firstOk.net

\* C3 as amended: once an invocation has ended without error and left an
\* entry in DATA_DIR, no later invocation sends a request.
C3_NoRequestAfterPopulated == firstPop.seen => net = firstPop.net

\* C3 witness: a fetch filled DATA_DIR and a later invocation was skipped
C3_Witness ==
    /\ Ended
    /\ run >= 2
    /\ firstPop.seen
    /\ firstPop.net.zip = 1
    /\ result = "skipped"

\* C4: an invocation that ends in failure leaves DATA_DIR missing or empty.
C4_NoHalfPopulated ==
    (Ended /\ result = "fatal") => (~target.exists \/ Listdir(target) = {})

\* C5: once the "with" block is left, and so after every invocation, no
\* temporary workspace is on disk, and with it no data.zip and no extracted
\* member.
C5_Cleanup == pc \in {"idle", "return", "except"} => DOMAIN tmp = {}

\* C5 witness: an invocation failed after members were extracted into its
\* workspace, and has ended
C5_Witness ==
    /\ Ended
    /\ result = "fatal"
    /\ failed \in {"extract", "rmtree", "copytree"}
    /\ Did("extract")

\* The metadata request failed: as claimed (no 2xx status, or no response)
\* and as amended (a 4xx or 5xx status, or no response)
MetaNon2xx == Did("meta") /\ ~(200 <= resp.status /\ resp.status <= 299)
MetaErrorStatus ==
    Did("meta") /\ (resp.status = 0 \/ (400 <= resp.status /\ resp.status <= 599))

\* What C6 says of an invocation whose metadata request failed: nothing is
\* done after the one request, DATA_DIR is as it was, and the process ends
\* with status 1 after one diagnostic.
MetaFailureIsFatal ==
    /\ trace = <<"meta">>
    /\ net.meta = net0.meta + 1
    /\ net.zip = net0.zip
    /\ DOMAIN tmp = {}
    /\ target = start
    /\ pc \in {"except", "idle"}
    /\ pc = "idle" => (result = "fatal" /\ ExitStatus = 1 /\ stderr = stderr0 + 1)

FromData(n) == archive.zip /\ UnderData(archive.names, n.src)

\* C7: whatever is extracted into a workspace comes from a member under
\* <top-level>/data/, and so does whatever an archive put into DATA_DIR; the
\* archive <top>/data/a, <top>/other/b installs a alone.
C7_ArchiveFiltering ==
    /\ \A w \in DOMAIN tmp : \A n \in tmp[w] : n.path = ZipPath \/ FromData(n)
    /\ \A n \in target.nodes : n.src = 0 \/ FromData(n)
    /\ (Installed /\ archive.names = <<N_a, N_other_b>>) =>
           {n.path : n \in target.nodes} = {<<(<<"a">>)>>}

\* C7 witness: the archive <top>/data/a, <top>/other/b was installed
C7_Witness ==
    /\ Installed
    /\ archive.names = <<N_a, N_other_b>>
    /\ target.nodes # {}

\* C8: an invocation that begins with DATA_DIR existing and empty fetches as
\* one that begins without it does (it is not skipped, and sends the
\* metadata request), and when it returns the old directory was removed and
\* DATA_DIR holds what a fresh fetch of the archive installs.
C8_StaleEmptyReplace ==
    (run > 0 /\ start = EmptyDir) =>
        /\ result # "skipped"
        /\ pc # "meta" => (Did("meta") /\ net.meta = net0.meta + 1)
        /\ Installed =>
             /\ Did("rmtree")
             /\ target.exists
             /\ View(target.nodes) = ExpectedTree(archive.names)

\* C8 witness: a fetch over an empty DATA_DIR installed a nested file
C8_Witness ==
    /\ Installed
    /\ start = EmptyDir
    /\ \E n \in target.nodes : ~n.dir /\ Len(n.path) = 2

\* The opened archive has no member, or none under <top-level>/data/
NoDataMember ==
    /\ Did("open")
    /\ archive.zip
    /\ \A i \in 1..Len(archive.names) : ~UnderData(archive.names, i)

\* C9: an archive without members, or without a member under
\* <top-level>/data/, never ends an invocation well: download_and_extract_data
\* does not return, no directory is installed, and the process ends with
\* status 1 after one diagnostic.
C9_ArchiveFormatFatal ==
    NoDataMember =>
        /\ pc # "return"
        /\ result # "installed"
        /\ target \in {start, Missing}
        /\ pc = "idle" => (result = "fatal" /\ ExitStatus = 1 /\ stderr = stderr0 + 1)

\* C9 witness: an archive with members, none under <top-level>/data/, was
\* fetched over an empty DATA_DIR and the process has exited
C9_Witness ==
    /\ Ended
    /\ NoDataMember
    /\ archive.names # <<>>
    /\ start = EmptyDir
    /\ failed = "copytree"

\* The place of a step in the order the claim gives
Rank(step) ==
    CASE step = "meta"     -> 1
      [] step = "tmpdir"   -> 2
      [] step = "download" -> 3
      [] step = "open"     -> 4
      [] step = "extract"  -> 5
      [] step = "rmtree"   -> 6
      [] step = "copytree" -> 7
      [] step = "cleanup"  -> 8

\* C10: the steps of an invocation come in the order metadata request,
\* download, top-level determination, extraction, removal, copy; DATA_DIR is
\* as it was until the removal or the copy, and so after a failure of any
\* earlier step.
C10_TargetTouchedLast ==
    /\ \A k \in 2..Len(trace) :
         \/ Rank(trace[k - 1]) < Rank(trace[k])
         \/ trace[k - 1] = "extract" /\ trace[k] = "extract"
    /\ (~Did("rmtree") /\ ~Did("copytree")) => target = start
    /\ failed \in {"meta", "download", "open", "toplevel", "extract"} => target = start

\* C10 witness: the extraction of a member failed over an empty DATA_DIR and
\* the process has exited
C10_Witness ==
    /\ Ended
    /\ failed = "extract"
    /\ start = EmptyDir
    /\ target = EmptyDir

====
